---- MODULE Spec2Model ----
(***************************************************************************)
(* Model of the Adform asynchronous-report client                          *)
(* (src/src/adform/api_service.py): submit -> poll until terminal ->       *)
(* fetch, driven page by page by the generator get_report_data_paginated.  *)
(* One execution is modelled, started through one of three entry points:   *)
(* Component.run (src/src/component.py), an iteration of the generator     *)
(* whose pages are stored with Component.store_results, or a direct call   *)
(* of _submit_stats_report.  The remote service is the environment.        *)
(***************************************************************************)
EXTENDS Integers, Sequences, FiniteSets, TLC

(***************************************************************************)
(* Bounds of the model (not program constants).                            *)
(***************************************************************************)
\* the server ends the result set at the MaxPages-th page at the latest
MaxPages == 3
\* rows of one page
MaxRows == 2
\* seconds one HTTP attempt may take (0..MaxLatency)
MaxLatency == 1
\* elapsed time saturates here: the code only tests elapsed > 60
TimeCap == 62

(***************************************************************************)
(* Program constants.                                                      *)
(***************************************************************************)
DEFAULT_PAGING_LIMIT == 100000
MAX_RETRIES == 10
DEFAULT_WAIT_INTERVAL == 2
POLL_TIMEOUT == 60

status_forcelist == {429, 500, 502, 504}

(***************************************************************************)
(* The environment: what the remote service may answer.                    *)
(***************************************************************************)
\* HTTP status codes the service answers with
Codes == {200, 400, 503} \cup status_forcelist
\* the value of res when the JSON object has no "status" key (also res = {})
NoStatus == "<absent>"
\* bodies of the operation-status resource
StatusBodies == {NoStatus, "pending", "running", "succeeded", "failed"}
\* response.text of a rejected submission
Texts == {"bad request", "forbidden"}
OpHeader == "Operation-Location"
LocHeader == "Location"
\* a header value is a '/'-separated path, kept as its sequence of segments
OpPath(k) == <<"v1", "buyer", "stats", "operations", 2 * k - 1>>
LocPath(k) == <<"v1", "buyer", "stats", "data", 2 * k>>
\* the headers of the answer to the k-th submission, restricted to those present
HeadersOf(k, present) ==
    [h \in present |-> IF h = OpHeader THEN OpPath(k) ELSE LocPath(k)]
NoHeaders == HeadersOf(0, {})

\* the report request of the extraction (opaque validated values)
request_filter == "filter_def"
dimensions == "dimensions"
metrics == "metric_definitions"
\* the column list, fixed per extraction
ColumnHeaders == <<"date", "client", "impressions">>
\* the k-th result page the service produces, with n rows
Page(k, n) ==
    [reportData |-> [columnHeaders |-> ColumnHeaders,
                     rows |-> [i \in 1..n |-> <<k, i>>]]]
\* Python's None and the empty dict, as values a paging argument may take
None == [NoneType |-> TRUE]
EmptyDict == [x \in {} |-> x]

\* the entry points of an execution
EntryRun == "Component.run"
EntryGenerator == "get_report_data_paginated"
EntrySubmit == "_submit_stats_report"
\* the methods of class AdformClient, its own and those of HttpClient it uses
ClientMethods == {"login_using_client_credentials", "_submit_stats_report",
                  "_wait_until_operation_finished", "_get_report_result",
                  "get_report_data_paginated", "get", "post", "post_raw"}
\* the attribute Component.run reads from the client
FetcherName == "get_report_data"
\* access tokens: of the OAuth credentials, and issued by the token endpoint
OauthToken == "oauth_token"
IssuedToken == "issued_token"
\* JSON objects the token endpoint answers a login with
TokenResponses == {[access_token |-> IssuedToken, token_type |-> "Bearer"],
                   [token_type |-> "Bearer"], EmptyDict}
\* the output file before anything has been written
NoFile == [exists |-> FALSE, lines |-> <<>>]

VARIABLES
    pc,                 \* position of the generator / of the call it is in
    has_more,           \* get_report_data_paginated: has_more
    offset,             \* get_report_data_paginated: offset
    operation_id,       \* handle returned by the last submission (0: none)
    report_location_id, \* result location of the last submission (0: none)
    continue_polling,   \* _wait_until_operation_finished: continue_polling
    invalid_status,     \* _wait_until_operation_finished: invalid_status
    anomalous_reads,    \* status-less reads of the poll so far: none, one, several
    res,                \* _wait_until_operation_finished: res (its status)
    elapsed,            \* time.time() - start, in seconds, saturating
    retries,            \* retries the transport has used in the call in progress,
                        \* or in the call the exception came from
    response,           \* the response the last finished transport call ended on
    err,                \* the exception that left the generator, if any
    submitted,          \* request bodies, one per _submit_stats_report call
    yielded,            \* pages the generator has yielded, in order
    entry,              \* the entry point this execution was started through
    paging_arg,         \* paging argument of a direct _submit_stats_report call
    file,               \* the output file of store_results
    stored,             \* pages the consumer has passed to store_results
    run_pc,             \* position of Component.run
    config,             \* which credentials the configuration holds
    auth_header,        \* the client's _auth_header (<<>>: no client yet)
    secrets,            \* the token endpoint's answer to the login
    run_err             \* the exception that ended Component.run, if any

\* what the code of _submit_stats_report and of the generator writes
clientVars == <<pc, has_more, offset, operation_id, report_location_id,
                continue_polling, invalid_status, anomalous_reads, res, elapsed,
                retries, response, err, submitted, yielded>>

\* what the client's own code never writes
outerVars == <<entry, paging_arg, file, stored, run_pc, config, auth_header,
               secrets, run_err>>

vars == <<pc, has_more, offset, operation_id, report_location_id,
          continue_polling, invalid_status, anomalous_reads, res, elapsed, retries,
          response, err, submitted, yielded, outerVars>>

Min(a, b) == IF a < b THEN a ELSE b

\* an exception: its class, its message, the call that raised it, and what the
\* message carries (status code, response text or status object, operation id)
NoError == [type |-> "none", msg |-> "none", where |-> "none",
            code |-> 0, text |-> "", op |-> 0]
NoResponse == [call |-> "none", code |-> 0, headers |-> NoHeaders, body |-> ""]

(***************************************************************************)
(* Pure helpers, as the code computes them.                                *)
(***************************************************************************)
\* str.rsplit('/', 1)[1]: the final path segment
RSplitLast(path) == path[Len(path)]

\* mutant of Truthy: only None is falsy, an empty paging is sent
Truthy_OnlyNoneIsFalsy(paging) == paging # None

\* truthiness of the paging argument: None and {} are falsy
Truthy(paging) == paging # None /\ paging # EmptyDict

\* the request body of _submit_stats_report
BuildBody(f, d, m, paging) ==
    LET body == [dimensions |-> d, filter |-> f, metrics |-> m]
    IN  IF Truthy(paging) THEN body @@ [paging |-> paging] ELSE body

\* dict.get(key): the value if present, as a sequence of at most one element
Get(d, key) == IF key \in DOMAIN d THEN <<d[key]>> ELSE <<>>

\* str(x) of a string or of None
Str(x) == IF x = <<>> THEN "None" ELSE x[1]

\* {"Authorization": f'Bearer {token}'}
Bearer(token) == <<"Bearer", token>>

\* mutant of FileMode: the file is always opened for writing
FileMode_AlwaysWrite(exists) == "w+"

\* 'a' if os.path.exists(file_path) else 'w+'
FileMode(exists) == IF exists THEN "a" ELSE "w+"

\* the file after store_results(report_result, file_path)
StoreResults(f, report_result) ==
    LET mode == FileMode(f.exists)
        columns == report_result.reportData.columnHeaders
        opened == IF mode = "a" THEN f.lines ELSE <<>>
        headed == IF mode = "w+" THEN Append(opened, columns) ELSE opened
    IN  [exists |-> TRUE, lines |-> headed \o report_result.reportData.rows]

\* the paging window of one loop iteration
Paging(off) == [offset |-> off, limit |-> DEFAULT_PAGING_LIMIT]

\* mutant of Rejected: only server errors are rejected
Rejected_ServerErrorsOnly(code) == code > 499

\* response.status_code > 299
Rejected(code) == code > 299

\* "status" not in res
StatusMissing(r) == r = NoStatus

\* res['status'] in ['succeeded', 'failed']
Terminal(r) == r \in {"succeeded", "failed"}

\* mutant of TimedOut: the budget ends at 60 s, not after
TimedOut_AtSixty(e) == e >= POLL_TIMEOUT

\* time.time() - start > 60
TimedOut(e) == e > POLL_TIMEOUT

\* invalid_status after one read
MarkInvalid(inv, r) == inv \/ StatusMissing(r)

\* the status-less reads so far, after one more read
CountAnomaly(a, r) ==
    IF StatusMissing(r) THEN (IF a = "none" THEN "one" ELSE "several") ELSE a

\* mutant of ContinuePolling: status-less reads are polled through, with no budget
ContinuePolling_NoBudget(r, e) == ~Terminal(r)

\* continue_polling after one read at elapsed time e
ContinuePolling(r, e) ==
    LET c1 == IF StatusMissing(r) THEN TRUE
              ELSE IF Terminal(r) THEN FALSE ELSE TRUE
    IN  IF StatusMissing(r) /\ TimedOut(e) THEN FALSE ELSE c1

\* mutant of PollOutcome: a failed report is not raised
PollOutcome_FailedReturns(inv, r, op) ==
    IF inv
    THEN [type |-> "AdformClientError", msg |-> "result could not be parsed",
          where |-> "poll", code |-> 0, text |-> r, op |-> 0]
    ELSE [type |-> "none", msg |-> "none", where |-> "none",
          code |-> 0, text |-> "", op |-> 0]

\* what follows the poll loop: the exception raised, or NoError on return
PollOutcome(inv, r, op) ==
    IF inv
    THEN [type |-> "AdformClientError", msg |-> "result could not be parsed",
          where |-> "poll", code |-> 0, text |-> r, op |-> 0]
    ELSE IF r = "failed"
    THEN [type |-> "AdformClientError", msg |-> "report job failed to process",
          where |-> "poll", code |-> 0, text |-> "", op |-> op]
    ELSE NoError

\* len(res.get('reportData')['rows'])
RowCount(page) == Len(page.reportData.rows)

\* mutant of NextOffset: the cursor is set to the page's rows, not advanced
NextOffset_NotAccumulated(n, off) == IF n > 0 THEN n ELSE off

\* offset after a page of n rows
NextOffset(n, off) == IF n > 0 THEN n + off ELSE off

\* mutant of NextHasMore: a page shorter than the limit ends the sequence
NextHasMore_StopOnShortPage(n, hm) == IF n >= DEFAULT_PAGING_LIMIT THEN hm ELSE FALSE

\* has_more after a page of n rows
NextHasMore(n, hm) == IF n > 0 THEN hm ELSE FALSE

\* mutant of Yield: the empty page ends the loop without being yielded
Yield_SkipEmpty(pages, page) ==
    IF Len(page.reportData.rows) = 0 THEN pages ELSE Append(pages, page)

\* yield res: the pages the consumer has been given, after this one
Yield(pages, page) == Append(pages, page)

\* saturating clock
Tick(e, d) == Min(e + d, TimeCap)

\* mutant of Retryable: 503 is retried too
Retryable_With503(code) == code \in status_forcelist \cup {503}

\* urllib3 Retry(total=MAX_RETRIES, status_forcelist=...): retry this answer?
Retryable(code) == code \in status_forcelist
RetriesLeft(n) == n < MAX_RETRIES

(***************************************************************************)
(* Initial state: no code of the entry point has run.  Entered through     *)
(* Component.run there is no client yet; otherwise the client has been     *)
(* constructed with the OAuth access token.                                *)
(***************************************************************************)
Init ==
    /\ entry \in {EntryRun, EntryGenerator, EntrySubmit}
    /\ pc = CASE entry = EntryRun -> "idle"
              [] entry = EntryGenerator -> "start"
              [] entry = EntrySubmit -> "call"
    /\ paging_arg \in IF entry = EntrySubmit
                      THEN {None, EmptyDict, Paging(0), Paging(MaxRows)}
                      ELSE {None}
    /\ run_pc = IF entry = EntryRun THEN "init_client" ELSE "none"
    /\ config \in IF entry = EntryRun THEN {"credentials", "oauth"} ELSE {"none"}
    /\ auth_header = IF entry = EntryRun THEN <<>> ELSE Bearer(Str(<<OauthToken>>))
    /\ secrets = <<>>
    /\ run_err = NoError
    /\ file = NoFile
    /\ stored = 0
    /\ has_more = TRUE
    /\ offset = 0
    /\ operation_id = 0
    /\ report_location_id = 0
    /\ continue_polling = FALSE
    /\ invalid_status = FALSE
    /\ anomalous_reads = "none"
    /\ res = NoStatus
    /\ elapsed = 0
    /\ retries = 0
    /\ response = NoResponse
    /\ err = NoError
    /\ submitted = <<>>
    /\ yielded = <<>>

\* the exception e leaves the generator; retries keeps what the failed call used
Raise(e) ==
    /\ pc' = "raised"
    /\ err' = e
    /\ UNCHANGED retries

(***************************************************************************)
(* The consumer asks for the next page: the generator starts, or resumes   *)
(* after its yield, tests has_more and enters _submit_stats_report.  The   *)
(* consumer is a for loop: it asks again only when its body has run on the *)
(* page it was given.                                                      *)
(***************************************************************************)
\* mutant of CanResume: the consumer asks for the next page before storing
CanResume_BeforeStored(p, given, done) == p \in {"start", "yielded"}

\* the generator can be resumed: not begun, or suspended at its yield with the
\* loop body finished on each of the given pages
CanResume(p, given, done) == p = "start" \/ (p = "yielded" /\ done = given)

GenNext ==
    /\ CanResume(pc, Len(yielded), stored)
    /\ LET hm == IF pc = "start" THEN TRUE ELSE has_more
           off == IF pc = "start" THEN 0 ELSE offset
       IN  /\ has_more' = hm
           /\ offset' = off
           /\ IF hm
              THEN /\ pc' = "submit"
                   /\ submitted' = Append(submitted,
                          BuildBody(request_filter, dimensions, metrics, Paging(off)))
                   /\ retries' = 0
              ELSE /\ pc' = "done"
                   /\ UNCHANGED <<submitted, retries>>
    /\ UNCHANGED <<operation_id, report_location_id, continue_polling,
                   invalid_status, anomalous_reads, res, elapsed, response, err, yielded>>
    /\ UNCHANGED outerVars

(***************************************************************************)
(* The transport (HttpClient configured in AdformClient.__init__): an      *)
(* answer whose status is in status_forcelist is retried while retries are *)
(* left; with none left the call ends in RetryError.                       *)
(***************************************************************************)
\* the request is sent again
TransportRetry(call) ==
    /\ pc = call
    /\ \E code \in Codes :
        /\ Retryable(code)
        /\ RetriesLeft(retries)
        /\ retries' = retries + 1

\* the call returns the answer rsp to the client code
TransportReturns(rsp) == response' = rsp

\* the call ends on the answer rsp, the last of its retries, in RetryError
TransportGivesUp(rsp) == response' = rsp

Answer(call, code, headers, body) ==
    [call |-> call, code |-> code, headers |-> headers, body |-> body]

Error(type, msg, where) ==
    [type |-> type, msg |-> msg, where |-> where, code |-> 0, text |-> "", op |-> 0]

(***************************************************************************)
(* _submit_stats_report: POST of the request body.                         *)
(***************************************************************************)
\* a direct call with the paging argument paging_arg: the body is built
SubmitCall ==
    /\ pc = "call"
    /\ submitted' = Append(submitted,
           BuildBody(request_filter, dimensions, metrics, paging_arg))
    /\ retries' = 0
    /\ pc' = "submit"
    /\ UNCHANGED <<has_more, offset, operation_id, report_location_id,
                   continue_polling, invalid_status, anomalous_reads, res,
                   elapsed, response, err, yielded>>
    /\ UNCHANGED outerVars

SubmitRetry ==
    /\ TransportRetry("submit")
    /\ UNCHANGED <<pc, has_more, offset, operation_id, report_location_id,
                   continue_polling, invalid_status, anomalous_reads, res, elapsed, response, err,
                   submitted, yielded>>
    /\ UNCHANGED outerVars

\* retries exhausted: RetryError is caught and raised as AdformServerError
SubmitExhausted ==
    /\ pc = "submit"
    /\ \E code \in Codes :
        /\ Retryable(code)
        /\ ~RetriesLeft(retries)
        /\ TransportGivesUp(Answer("submit", code, NoHeaders, ""))
        /\ Raise(Error("AdformServerError",
                       "check quota limits in case of error #429", "submit"))
    /\ UNCHANGED <<has_more, offset, operation_id, report_location_id,
                   continue_polling, invalid_status, anomalous_reads, res, elapsed, submitted, yielded>>
    /\ UNCHANGED outerVars

\* response.status_code > 299
SubmitRejected ==
    /\ pc = "submit"
    /\ \E code \in Codes, text \in Texts :
        /\ ~Retryable(code)
        /\ Rejected(code)
        /\ TransportReturns(Answer("submit", code, NoHeaders, text))
        /\ Raise([Error("AdformClientError", "failed to submit report", "submit")
                  EXCEPT !.code = code, !.text = text])
    /\ UNCHANGED <<has_more, offset, operation_id, report_location_id,
                   continue_polling, invalid_status, anomalous_reads, res, elapsed, submitted, yielded>>
    /\ UNCHANGED outerVars

\* a success status without one of the two headers: response.headers[...] fails
SubmitMissingHeader ==
    /\ pc = "submit"
    /\ \E code \in Codes, present \in SUBSET {OpHeader, LocHeader} :
        /\ ~Retryable(code)
        /\ ~Rejected(code)
        /\ present # {OpHeader, LocHeader}
        /\ TransportReturns(Answer("submit", code, HeadersOf(Len(submitted), present), ""))
        /\ Raise(Error("KeyError",
                       IF OpHeader \notin present THEN OpHeader ELSE LocHeader,
                       "submit"))
    /\ UNCHANGED <<has_more, offset, operation_id, report_location_id,
                   continue_polling, invalid_status, anomalous_reads, res, elapsed, submitted, yielded>>
    /\ UNCHANGED outerVars

\* the handles are returned; in the generator _wait_until_operation_finished
\* begins
SubmitAccepted ==
    /\ pc = "submit"
    /\ \E code \in Codes :
        LET hdrs == HeadersOf(Len(submitted), {OpHeader, LocHeader})
        IN  /\ ~Retryable(code)
            /\ ~Rejected(code)
            /\ TransportReturns(Answer("submit", code, hdrs, ""))
            /\ operation_id' = RSplitLast(hdrs[OpHeader])
            /\ report_location_id' = RSplitLast(hdrs[LocHeader])
    /\ continue_polling' = TRUE
    /\ res' = NoStatus
    /\ invalid_status' = FALSE
    /\ anomalous_reads' = "none"
    /\ elapsed' = 0
    /\ retries' = 0
    /\ pc' = IF entry = EntrySubmit THEN "returned" ELSE "sleep"
    /\ UNCHANGED <<has_more, offset, err, submitted, yielded>>
    /\ UNCHANGED outerVars

(***************************************************************************)
(* _wait_until_operation_finished: the poll loop.                          *)
(***************************************************************************)
\* mutant of PollSleep: the loop queries again without sleeping
PollSleep_BusySpin ==
    /\ pc = "sleep"
    /\ pc' = "query"
    /\ UNCHANGED <<has_more, offset, operation_id, report_location_id,
                   continue_polling, invalid_status, anomalous_reads, res,
                   elapsed, retries, response, err, submitted, yielded>>
    /\ UNCHANGED outerVars

\* time.sleep(DEFAULT_WAIT_INTERVAL) at the head of the loop
PollSleep ==
    /\ pc = "sleep"
    /\ elapsed' = Tick(elapsed, DEFAULT_WAIT_INTERVAL)
    /\ pc' = "query"
    /\ UNCHANGED <<has_more, offset, operation_id, report_location_id,
                   continue_polling, invalid_status, anomalous_reads, res, retries, response, err,
                   submitted, yielded>>
    /\ UNCHANGED outerVars

PollRetry ==
    /\ TransportRetry("query")
    /\ \E d \in 0..MaxLatency : elapsed' = Tick(elapsed, d)
    /\ UNCHANGED <<pc, has_more, offset, operation_id, report_location_id,
                   continue_polling, invalid_status, anomalous_reads, res, response, err,
                   submitted, yielded>>
    /\ UNCHANGED outerVars

\* RetryError leaves self.get; nothing catches it
PollExhausted ==
    /\ pc = "query"
    /\ \E code \in Codes, d \in 0..MaxLatency :
        /\ Retryable(code)
        /\ ~RetriesLeft(retries)
        /\ elapsed' = Tick(elapsed, d)
        /\ TransportGivesUp(Answer("poll", code, NoHeaders, ""))
        /\ Raise(Error("RetryError", "max retries exceeded", "poll"))
    /\ UNCHANGED <<has_more, offset, operation_id, report_location_id,
                   continue_polling, invalid_status, anomalous_reads, res, submitted, yielded>>
    /\ UNCHANGED outerVars

\* raise_for_status() inside self.get; nothing catches it
PollHttpError ==
    /\ pc = "query"
    /\ \E code \in Codes, d \in 0..MaxLatency :
        /\ ~Retryable(code)
        /\ code >= 400
        /\ elapsed' = Tick(elapsed, d)
        /\ TransportReturns(Answer("poll", code, NoHeaders, ""))
        /\ Raise([Error("HTTPError", "raise_for_status", "poll") EXCEPT !.code = code])
    /\ UNCHANGED <<has_more, offset, operation_id, report_location_id,
                   continue_polling, invalid_status, anomalous_reads, res, submitted, yielded>>
    /\ UNCHANGED outerVars

\* a status object is read: the rest of the loop body, and when the loop ends
\* the code after it (the locals end with a normal return)
PollRead ==
    /\ pc = "query"
    /\ \E code \in Codes, status \in StatusBodies, d \in 0..MaxLatency :
        LET now == Tick(elapsed, d)
            inv == MarkInvalid(invalid_status, status)
            cont == ContinuePolling(status, now)
            out == PollOutcome(inv, status, operation_id)
        IN  /\ ~Retryable(code)
            /\ code < 400
            /\ TransportReturns(Answer("poll", code, NoHeaders, status))
            /\ IF cont \/ out # NoError
               THEN /\ res' = status
                    /\ invalid_status' = inv
                    /\ anomalous_reads' = CountAnomaly(anomalous_reads, status)
                    /\ continue_polling' = cont
                    /\ elapsed' = now
                    /\ IF cont
                       THEN pc' = "sleep" /\ retries' = 0 /\ UNCHANGED err
                       ELSE Raise(out)
               ELSE /\ res' = NoStatus
                    /\ retries' = 0
                    /\ invalid_status' = FALSE
                    /\ anomalous_reads' = "none"
                    /\ continue_polling' = FALSE
                    /\ elapsed' = 0
                    /\ pc' = "fetch"
                    /\ UNCHANGED err
    /\ UNCHANGED <<has_more, offset, operation_id, report_location_id,
                   submitted, yielded>>
    /\ UNCHANGED outerVars

(***************************************************************************)
(* _get_report_result, and the rest of the loop body of                    *)
(* get_report_data_paginated up to its yield.                              *)
(***************************************************************************)
FetchRetry ==
    /\ TransportRetry("fetch")
    /\ UNCHANGED <<pc, has_more, offset, operation_id, report_location_id,
                   continue_polling, invalid_status, anomalous_reads, res, elapsed, response, err,
                   submitted, yielded>>
    /\ UNCHANGED outerVars

FetchExhausted ==
    /\ pc = "fetch"
    /\ \E code \in Codes :
        /\ Retryable(code)
        /\ ~RetriesLeft(retries)
        /\ TransportGivesUp(Answer("fetch", code, NoHeaders, ""))
        /\ Raise(Error("RetryError", "max retries exceeded", "fetch"))
    /\ UNCHANGED <<has_more, offset, operation_id, report_location_id,
                   continue_polling, invalid_status, anomalous_reads, res, elapsed, submitted, yielded>>
    /\ UNCHANGED outerVars

FetchHttpError ==
    /\ pc = "fetch"
    /\ \E code \in Codes :
        /\ ~Retryable(code)
        /\ code >= 400
        /\ TransportReturns(Answer("fetch", code, NoHeaders, ""))
        /\ Raise([Error("HTTPError", "raise_for_status", "fetch") EXCEPT !.code = code])
    /\ UNCHANGED <<has_more, offset, operation_id, report_location_id,
                   continue_polling, invalid_status, anomalous_reads, res, elapsed, submitted, yielded>>
    /\ UNCHANGED outerVars

\* the page is delivered: the cursor is advanced and the page is yielded
FetchPage ==
    /\ pc = "fetch"
    /\ \E code \in Codes, n \in 0..MaxRows :
        LET k == Len(yielded) + 1
            page == Page(k, IF k >= MaxPages THEN 0 ELSE n)
        IN  /\ ~Retryable(code)
            /\ code < 400
            /\ TransportReturns(Answer("fetch", code, NoHeaders, ""))
            /\ offset' = NextOffset(RowCount(page), offset)
            /\ has_more' = NextHasMore(RowCount(page), has_more)
            /\ yielded' = Yield(yielded, page)
    /\ retries' = 0
    /\ pc' = "yielded"
    /\ UNCHANGED <<operation_id, report_location_id, continue_polling,
                   invalid_status, anomalous_reads, res, elapsed, err, submitted>>
    /\ UNCHANGED outerVars

(***************************************************************************)
(* The consumer's loop body: the page just yielded is stored.              *)
(***************************************************************************)
StorePage ==
    /\ pc = "yielded"
    /\ stored < Len(yielded)
    /\ file' = StoreResults(file, yielded[stored + 1])
    /\ stored' = stored + 1
    /\ UNCHANGED clientVars
    /\ UNCHANGED <<entry, paging_arg, run_pc, config, auth_header, secrets, run_err>>

(***************************************************************************)
(* Component.run: init_client, then the loop over the client's fetcher.    *)
(***************************************************************************)
\* init_client_with_access_token: the client is built on the OAuth token
InitClientWithAccessToken ==
    /\ run_pc = "init_client"
    /\ config = "oauth"
    /\ auth_header' = Bearer(Str(Get([access_token |-> OauthToken], "access_token")))
    /\ run_pc' = "call_fetcher"
    /\ UNCHANGED clientVars
    /\ UNCHANGED <<entry, paging_arg, file, stored, config, secrets, run_err>>

\* init_client_with_api_token: AdformClient(''), then the login is sent
InitClientWithApiToken ==
    /\ run_pc = "init_client"
    /\ config = "credentials"
    /\ auth_header' = Bearer(Str(<<"">>))
    /\ run_pc' = "login"
    /\ UNCHANGED clientVars
    /\ UNCHANGED <<entry, paging_arg, file, stored, config, secrets, run_err>>

\* login_using_client_credentials: the token endpoint answers with a JSON object
LoginAnswered ==
    /\ run_pc = "login"
    /\ \E answer \in TokenResponses :
        /\ secrets' = <<answer>>
        /\ auth_header' = Bearer(Str(Get(answer, "access_token")))
    /\ run_pc' = "call_fetcher"
    /\ UNCHANGED clientVars
    /\ UNCHANGED <<entry, paging_arg, file, stored, config, run_err>>

\* the POST of the login raises: init_client_with_api_token raises UserException
LoginFails ==
    /\ run_pc = "login"
    /\ run_err' = Error("UserException", "Login failed", "login")
    /\ run_pc' = "ended"
    /\ UNCHANGED clientVars
    /\ UNCHANGED <<entry, paging_arg, file, stored, config, auth_header, secrets>>

\* client.get_report_data: the attribute lookup on the client fails, and the
\* except clauses of run do not catch AttributeError
RunCallFetcher ==
    /\ run_pc = "call_fetcher"
    /\ FetcherName \notin ClientMethods
    /\ run_err' = Error("AttributeError", FetcherName, "run")
    /\ run_pc' = "ended"
    /\ UNCHANGED clientVars
    /\ UNCHANGED <<entry, paging_arg, file, stored, config, auth_header, secrets>>

Next ==
    \/ GenNext
    \/ StorePage
    \/ SubmitCall
    \/ InitClientWithAccessToken
    \/ InitClientWithApiToken
    \/ LoginAnswered
    \/ LoginFails
    \/ RunCallFetcher
    \/ SubmitRetry
    \/ SubmitExhausted
    \/ SubmitRejected
    \/ SubmitMissingHeader
    \/ SubmitAccepted
    \/ PollSleep
    \/ PollRetry
    \/ PollExhausted
    \/ PollHttpError
    \/ PollRead
    \/ FetchRetry
    \/ FetchExhausted
    \/ FetchHttpError
    \/ FetchPage

Spec == Init /\ [][Next]_vars

\* the client's thread always takes its next step and the service always answers
FairSpec == Spec /\ WF_vars(Next)
(***************************************************************************)
(* Properties.                                                             *)
(***************************************************************************)
RECURSIVE SumRows(_, _)
\* rows of the first j pages of the sequence pages
SumRows(pages, j) ==
    IF j = 0 THEN 0 ELSE SumRows(pages, j - 1) + Len(pages[j].reportData.rows)

Last(seq) == seq[Len(seq)]
\* the answer the last finished call ended on is a delivered status object
StatusRead(status) ==
    response.call = "poll" /\ response.code < 400 /\ response.body = status

\* C1: a run that ends normally, on pages of s1..sN rows with only sN = 0, made
\* exactly N submissions, the k-th with paging offset s1+...+s(k-1) and limit
\* 100000, and emitted the N-1 non-empty pages in the order they were produced.
C1_PagesAndOffsets ==
    pc = "done" =>
        LET N == Len(yielded)
        IN  /\ N >= 1
            /\ Len(submitted) = N
            /\ \A k \in 1..N :
                /\ "paging" \in DOMAIN submitted[k]
                /\ submitted[k].paging =
                       [offset |-> SumRows(yielded, k - 1), limit |-> 100000]
                /\ yielded[k] = Page(k, Len(yielded[k].reportData.rows))
            /\ Cardinality({k \in 1..N : Len(yielded[k].reportData.rows) > 0}) = N - 1
            /\ Len(yielded[N].reportData.rows) = 0

\* a finished run of three submissions with offsets 0 < s1 < s1+s2
C1_Witness ==
    /\ pc = "done"
    /\ Len(submitted) = 3
    /\ submitted[1].paging.offset = 0
    /\ submitted[2].paging.offset > 0
    /\ submitted[3].paging.offset > submitted[2].paging.offset

\* C2: a terminal status read before 60 s have elapsed ends the poll with that
\* status, a normal return for succeeded, whatever reads came before it.
C2_TerminalStatusReported ==
    /\ (StatusRead("succeeded") /\ elapsed < 60) =>
           (pc = "fetch" /\ err = NoError)
    /\ (StatusRead("failed") /\ elapsed < 60) =>
           (pc = "raised" /\ err.msg = "report job failed to process")

\* C3: the poll loop always ends, whatever the service answers.
C3_PollAlwaysEnds == (pc = "sleep") ~> (pc \notin {"sleep", "query"})

\* C4: a submission answered with a success status but without one of the two
\* headers fails with an error of the client's taxonomy, never with a raw fault.
C4_MissingHeaderIsClientError ==
    (/\ response.call = "submit"
     /\ response.code <= 299
     /\ response.code # 0
     /\ DOMAIN response.headers # {OpHeader, LocHeader})
        => (pc = "raised" /\ err.type \in {"AdformClientError", "AdformServerError"})

\* C5: an anomalous (status-less) read ends the poll exactly when more than 60 s
\* have elapsed since the loop began, and then with the could-not-be-parsed
\* error; up to 60 s the loop goes on to its next sleep.
C5_AnomalyBudget ==
    (StatusRead(NoStatus) /\ pc # "query") =>
        IF elapsed > 60
        THEN /\ pc = "raised"
             /\ err = [Error("AdformClientError", "result could not be parsed", "poll")
                       EXCEPT !.text = NoStatus]
        ELSE pc = "sleep" /\ continue_polling /\ invalid_status

\* the poll has ended on the timeout of anomalous reads
C5_Witness ==
    /\ pc = "raised"
    /\ StatusRead(NoStatus)
    /\ elapsed > 60
    /\ err.msg = "result could not be parsed"

\* C6: every remote call that exhausts its retries on a retryable status fails
\* with AdformServerError, whose message names the 429 quota.
C6_ExhaustedRetriesAreServerError ==
    (pc = "raised" /\ response.code \in {429, 500, 502, 504}) =>
        /\ err.type = "AdformServerError"
        /\ err.msg = "check quota limits in case of error #429"

\* C7 as stated: a call answered 503 surfaces no error (the 503 is retried).
C7_A503IsRetried == response.code = 503 => pc # "raised"

\* C7 as amended: a 503 is not retried, it ends the call with an error (a
\* submission with AdformClientError carrying 503, a poll or fetch with the
\* transport's HTTPError); a call answered with retryable statuses and then
\* with a success status surfaces no transport error.
C7_OnlyForcelistIsRetried ==
    /\ [](response.code = 503 =>
            /\ pc = "raised"
            /\ err.code = 503
            /\ err.type = IF response.call = "submit" THEN "AdformClientError"
                          ELSE "HTTPError")
    /\ [][(/\ pc \in {"submit", "query", "fetch"}
           /\ pc' # pc
           /\ retries >= 1
           /\ response'.code < 300)
             => (err'.type \notin {"AdformServerError", "RetryError", "HTTPError"}
                 /\ err'.msg # "failed to submit report")]_vars

\* a submission answered 503 by its first POST has failed
C7_Witness ==
    /\ pc = "raised"
    /\ response.call = "submit"
    /\ response.code = 503
    /\ retries = 0
    /\ err.type = "AdformClientError"

\* C8: a submission answered with a non-retryable status >= 300 fails at once
\* with AdformClientError carrying the status code and the response body; the
\* answer is not retried and no poll or fetch follows.
C8_RejectedSubmission ==
    (/\ response.call = "submit"
     /\ response.code >= 300
     /\ response.code \notin {429, 500, 502, 504})
        => /\ pc = "raised"
           /\ err.type = "AdformClientError"
           /\ err.type # "AdformServerError"
           /\ err.where = "submit"
           /\ err.code = response.code
           /\ err.text = response.body
           /\ Len(yielded) = Len(submitted) - 1
           /\ ~ENABLED Next

\* a submission answered 400 by its only POST has been rejected
C8_Witness ==
    /\ pc = "raised"
    /\ response.call = "submit"
    /\ response.code = 400
    /\ retries = 0
    /\ err.code = 400

\* C9: a read of the terminal status failed ends the poll with the
\* failed-to-process error carrying the operation id, whatever reads preceded it.
C9_FailedIsProcessingFailed ==
    (StatusRead("failed") /\ elapsed <= 60) =>
        /\ pc = "raised"
        /\ err.msg = "report job failed to process"
        /\ err.op = operation_id

\* C10: when the generator is resumed after an empty page it ends without a
\* further submission; after a page of n > 0 rows it submits again, with the
\* offset of the previous submission plus n.
C10_ZeroRowsEndsElseAdvance ==
    [][(pc = "yielded" /\ pc' # "yielded") =>
          LET n == Len(Last(yielded).reportData.rows)
          IN  IF n = 0
              THEN pc' = "done" /\ submitted' = submitted
              ELSE /\ pc' = "submit"
                   /\ Len(submitted') = Len(submitted) + 1
                   /\ Last(submitted').paging.offset = Last(submitted).paging.offset + n
                   /\ Last(submitted').paging.limit = 100000]_vars

\* the second submission, after a short first page of 2 rows at offset 0
C10_Witness ==
    /\ pc = "submit"
    /\ Len(submitted) = 2
    /\ Len(yielded[1].reportData.rows) = 2
    /\ submitted[1].paging.offset = 0
    /\ submitted[2].paging.offset = 2
\* C14: a status query is only ever begun by the sleep of 2 s at the head of
\* the poll loop: the first one after the submission, and each later one after
\* the query before it has ended.
C14_SleepBeforeEveryQuery ==
    [][/\ (pc' = "query" /\ pc # "query") =>
              (pc = "sleep" /\ elapsed' = Min(elapsed + 2, TimeCap))
       /\ (pc = "submit" /\ pc' \notin {"submit", "raised", "returned"}) => pc' = "sleep"
       /\ (pc = "query" /\ pc' # "query") => pc' \in {"sleep", "fetch", "raised"}]_vars

\* the first query of a poll is about to be sent, 2 s after the submission
C14_Witness ==
    /\ pc = "query"
    /\ response.call = "submit"
    /\ retries = 0
    /\ elapsed = 2

\* C15: every fetched page is yielded, the empty one included: no page follows
\* an empty page, and a run that ends normally has yielded one page per
\* submission, each once, the last of them empty and no other.
C15_EmptyPageIsYieldedLast ==
    /\ \A k \in 1..(Len(yielded) - 1) : Len(yielded[k].reportData.rows) > 0
    /\ \A j, k \in 1..Len(yielded) : yielded[j] = yielded[k] => j = k
    /\ pc \in {"yielded", "done"} => Len(yielded) = Len(submitted)
    /\ pc = "done" => /\ Len(yielded) >= 1
                      /\ Len(Last(yielded).reportData.rows) = 0

\* a finished run whose second page was the empty one
C15_Witness ==
    /\ pc = "done"
    /\ Len(yielded) = 2
    /\ Len(yielded[1].reportData.rows) > 0
    /\ Len(yielded[2].reportData.rows) = 0

\* C16: the result fetch begins only when the poll has read succeeded, for the
\* handles of one and the same submission; a poll that ended in an error is
\* followed by no fetch and no page for its submission.
C16_FetchOnlyAfterSucceeded ==
    /\ [][(pc' = "fetch" /\ pc # "fetch") =>
              /\ pc = "query"
              /\ response' = Answer("poll", response'.code, NoHeaders, "succeeded")
              /\ response'.code < 400
              /\ ~invalid_status]_vars
    /\ [](pc = "fetch" =>
              /\ operation_id = 2 * Len(submitted) - 1
              /\ report_location_id = 2 * Len(submitted))
    /\ []((pc = "raised" /\ err.where = "poll") =>
              (Len(yielded) = Len(submitted) - 1 /\ ~ENABLED Next))

\* the result of the second submission is being fetched
C16_Witness ==
    /\ pc = "fetch"
    /\ Len(submitted) = 2
    /\ response.call = "poll"
    /\ response.body = "succeeded"
    /\ report_location_id = 4

\* C13: the budget of 60 s runs from the start of the poll loop, which is never
\* reset: elapsed time only grows during a poll, and a status-less read ends
\* the poll exactly when more than 60 s have elapsed, however few or many
\* status-less reads came before it.
C13_BudgetFromLoopStart ==
    /\ [][(pc \in {"sleep", "query"} /\ pc' \in {"sleep", "query"}) =>
              elapsed' >= elapsed]_vars
    /\ [][(/\ pc = "query"
           /\ pc' # "query"
           /\ response'.code < 400
           /\ response'.body = NoStatus)
             => /\ (pc' = "raised") <=> (elapsed' > 60)
                /\ pc' \in {"raised", "sleep"}]_vars

\* the first status-less read of a poll came after more than 60 s of reads
\* with a status, and ended the poll
C13_Witness ==
    /\ pc = "raised"
    /\ err.msg = "result could not be parsed"
    /\ anomalous_reads = "one"
    /\ elapsed > 60

\* C11: at most one operation/result handle pair is live (submitted, result not
\* yet fetched) in every reachable state, and a submission begins only when
\* every earlier page has been fetched, yielded to the consumer and stored by it.
C11_OnePairLive ==
    /\ [](Len(submitted) - Len(yielded) \in {0, 1})
    /\ [](pc \in {"sleep", "query", "fetch"} =>
             /\ Len(submitted) = Len(yielded) + 1
             /\ operation_id = 2 * Len(submitted) - 1
             /\ report_location_id = 2 * Len(submitted))
    /\ [][Len(submitted') # Len(submitted) =>
             /\ Len(submitted') = Len(submitted) + 1
             /\ yielded' = yielded
             /\ Len(yielded) = Len(submitted)
             /\ stored = Len(yielded)
             /\ pc \in {"start", "yielded", "call"}
             /\ pc' = "submit"]_vars
C11_Witness ==
    /\ pc = "submit"
    /\ Len(submitted) = 3
    /\ Len(yielded) = 2
    /\ stored = 2

\* C12: Component.run hands every page of the fetcher to store_results in
\* order and ends without an error, or ends with a UserException.
C12_RunStoresPagesOrUserException ==
    run_pc = "ended" =>
        \/ run_err.type = "UserException"
        \/ /\ run_err = NoError
           /\ pc = "done"
           /\ stored = Len(yielded)

RECURSIVE RowsOf(_, _)
\* the rows of the first n pages, in page order
RowsOf(pages, n) ==
    IF n = 0 THEN <<>> ELSE RowsOf(pages, n - 1) \o pages[n].reportData.rows

\* C17: starting from no output file, after the pages stored so far the file
\* holds the first page's column header as its first line and nowhere else,
\* followed by the rows of the stored pages in page order.
C17_HeaderOnceThenRows ==
    /\ file.exists <=> stored > 0
    /\ stored <= Len(yielded)
    /\ stored > 0 =>
          /\ file.lines = <<yielded[1].reportData.columnHeaders>> \o RowsOf(yielded, stored)
          /\ Cardinality({i \in DOMAIN file.lines : file.lines[i] = ColumnHeaders}) = 1
C17_Witness ==
    /\ stored = 3
    /\ RowCount(yielded[1]) = 2
    /\ RowCount(yielded[2]) = 1
    /\ RowCount(yielded[3]) = 0
    /\ Len(file.lines) = 4

\* C18: after a login whose answer carries an access token the credential is
\* that token; after a failed login the run has ended with the login failure
\* and the credential is the one the client was built with; after an answer
\* without access_token the credential has not been replaced.
C18_LoginReplacesOrFails ==
    /\ (config = "credentials" /\ secrets # <<>>) =>
          IF "access_token" \in DOMAIN secrets[1]
          THEN auth_header = Bearer(secrets[1].access_token)
          ELSE auth_header = Bearer("") \/ run_err.msg = "Login failed"
    /\ run_err.msg = "Login failed" =>
          (run_err.type = "UserException" /\ auth_header = Bearer("") /\ secrets = <<>>)

\* C19: every request body has dimensions, filter and metrics; a body built by
\* a direct call has a paging field exactly when the paging argument is neither
\* None nor empty, and then it is the argument; every body built by the
\* generator has its paging window, the first with offset 0.
C19_PagingExactlyWhenGiven ==
    \A k \in DOMAIN submitted :
        LET body == submitted[k]
        IN  /\ {"dimensions", "filter", "metrics"} \subseteq DOMAIN body
            /\ DOMAIN body \subseteq {"dimensions", "filter", "metrics", "paging"}
            /\ body.dimensions = dimensions
            /\ body.filter = request_filter
            /\ body.metrics = metrics
            /\ IF entry = EntrySubmit
               THEN /\ "paging" \in DOMAIN body <=>
                          (paging_arg # None /\ paging_arg # EmptyDict)
                    /\ "paging" \in DOMAIN body => body.paging = paging_arg
               ELSE /\ "paging" \in DOMAIN body
                    /\ body.paging.limit = DEFAULT_PAGING_LIMIT
                    /\ k = 1 => body.paging.offset = 0
C19_Witness ==
    /\ entry = EntrySubmit
    /\ pc = "returned"
    /\ paging_arg = EmptyDict
    /\ DOMAIN submitted[1] = {"dimensions", "filter", "metrics"}
====
